---- MODULE Spec2Model ----
(***************************************************************************)
(* The traversal-and-resume engine of the lawscraper repository:           *)
(*   ms2.py      - multi-worker crawl (collect_codes_for_state, worker,    *)
(*                 scrape_branch, process_code_leaf, get_last_lex_path)    *)
(*   scraper2.py - single-worker crawl (collect_codes_for_state,           *)
(*                 collect_leaf_urls.helper, process_code_leaf,            *)
(*                 get_last_lex_path)                                      *)
(* Both programs write the same output file <save_dir>/<state>.jsonl and   *)
(* the same failure log FAILED_FAILPATH.                                   *)
(*                                                                         *)
(* A node of the remote tree is named by its lex_path (the sequence of     *)
(* 0-based child indices from the root); the child listing order is stable *)
(* so the URL of a node is identified with its lex_path.                   *)
(***************************************************************************)
EXTENDS Integers, Sequences, FiniteSets, TLC

\* ------------------------------------------------------------------ bounds
MaxThreads == 2
MaxRuns == 2
MaxFaults == 1
MaxJobs == 2
MaxLines == 2

\* ------------------------------------------------------------------ trees
\* The 2-level tree [A:[A0,A1,A2], B:[B0,B1]].
TreeAB ==
  [ nodes    |-> { <<>>, <<0>>, <<0,0>>, <<0,1>>, <<0,2>>, <<1>>, <<1,0>>, <<1,1>> },
    branches |-> { <<>>, <<0>>, <<1>> } ]

\* A tree whose root page is itself a leaf.
TreeRootLeaf ==
  [ nodes    |-> { <<>> },
    branches |-> { } ]

\* Mixed depths: a top-level leaf, a nested branch and a branch without children.
TreeDeep ==
  [ nodes    |-> { <<>>, <<0>>, <<1>>, <<1,0>>, <<1,1>>, <<1,1,0>>, <<2>> },
    branches |-> { <<>>, <<1>>, <<1,1>>, <<2>> } ]

SampleTrees == { TreeAB, TreeRootLeaf, TreeDeep }

IsPrefix(p, q) == Len(p) <= Len(q) /\ SubSeq(q, 1, Len(p)) = p

Children(t, p) == { n \in t.nodes : Len(n) = Len(p) + 1 /\ IsPrefix(p, n) }

\* len(links) of the page at p (0 for a page without listing or with an empty one).
NumLinks(t, p) == Cardinality(Children(t, p))

\* soup.find(class_=internal_class) is truthy: the page has a children listing.
IsBranch(t, p) == p \in t.branches

Leaves(t) == t.nodes \ t.branches

RECURSIVE Dfs(_, _), DfsFrom(_, _, _)
\* The leaves below p in pre-order (the order of an uninterrupted
\* single-worker crawl).
Dfs(t, p) == IF IsBranch(t, p) THEN DfsFrom(t, p, 0) ELSE <<p>>
DfsFrom(t, p, i) ==
  IF i >= NumLinks(t, p) THEN <<>> ELSE Dfs(t, p \o <<i>>) \o DfsFrom(t, p, i + 1)

\* ------------------------------------------------------------------ cursors
\* Optional[list[int]]: None or a list.
None == [some |-> FALSE, p |-> <<>>]
Some(p) == [some |-> TRUE, p |-> p]

\* Python truthiness of `continue_from`: None and the empty list are falsy.
Truthy(cf) == cf.some /\ cf.p # <<>>

\* continue_from[:n] (a slice clips at the end of the list).
Slice(s, n) == SubSeq(s, 1, IF n < Len(s) THEN n ELSE Len(s))

\* Variant: the resume index is ignored, every listing is walked from its start.
StartIdxAlwaysZero(path, cf) == 0

\* start_idx of a branch page (ms2.py 173-178, scraper2.py 177-182).
StartIdx(path, cf) ==
  IF Truthy(cf) /\ path = Slice(cf.p, Len(path)) /\ Len(path) < Len(cf.p)
    THEN cf.p[Len(path) + 1]
    ELSE 0

\* Variant: the cursor is handed to every child, later siblings included.
NewContinueFromKeep(cf, i, start_idx) == cf

\* new_continue_from handed to child i (ms2.py 188-190, scraper2.py 192-194).
NewContinueFrom(cf, i, start_idx) ==
  IF Truthy(cf) /\ i > start_idx THEN None ELSE cf

\* Variant: the leaf the run resumes from is processed again.
SkipLeafNever(path, cf) == FALSE

\* "Skip the exact leaf node we are resuming from" (ms2.py 206, scraper2.py 199).
SkipLeaf(path, cf) == Truthy(cf) /\ path = cf.p

\* ------------------------------------------------------------------ files
\* The output file is the sequence of the writes made to it: the JSON text of a
\* record (identified by its lex_path) or a line break.
Json(p) == [k |-> "json", p |-> p]
NL == [k |-> "nl", p |-> <<>>]

\* The JSON text of a record of ms.py / multi_scraper.py, which write the same
\* <save_dir>/<state>.jsonl: the record of the leaf p with its url and without
\* a lex_path field (ms.py 162-172, multi_scraper.py 39-49).
JsonUrl(p) == [k |-> "json_url", p |-> p]

\* What a killed process leaves of an unterminated JSON text: the buffered
\* writer flushes whole buffers, not whole records, so the text on disk may
\* end anywhere inside it.
Part(p) == [k |-> "part", p |-> p]

\* Index of the last line break of s, 0 when there is none.
LastNL(s) ==
  LET I == { i \in 1..Len(s) : s[i].k = "nl" }
  IN IF I = {} THEN 0 ELSE CHOOSE i \in I : \A j \in I : j <= i

\* Variant: the first line of the file is read instead of the last one.
LastLineIsFirst(f) ==
  LET I == { i \in 1..Len(f) : f[i].k = "nl" }
  IN IF I = {} THEN f ELSE SubSeq(f, 1, (CHOOSE i \in I : \A j \in I : i <= j) - 1)

\* f.seek(-2, END); scan backward for "\n" (the final byte is never examined);
\* OSError falls back to the start of the file; readline().
LastLine(f) ==
  LET body == IF f[Len(f)].k = "nl" THEN SubSeq(f, 1, Len(f) - 1) ELSE f
  IN SubSeq(body, LastNL(body) + 1, Len(body))

\* get_last_lex_path: [raised, val]. json.loads raises on an empty line, on a
\* cut JSON text and on a line holding two JSON texts; .get("lex_path") of a
\* record without that field is None.
GetLastLexPath(f) ==
  IF Len(f) = 0
    THEN [raised |-> FALSE, val |-> None]
    ELSE LET line == LastLine(f)
         IN IF Len(line) = 1 /\ line[1].k = "json"
              THEN [raised |-> FALSE, val |-> Some(line[1].p)]
            ELSE IF Len(line) = 1 /\ line[1].k = "json_url"
              THEN [raised |-> FALSE, val |-> None]
              ELSE [raised |-> TRUE, val |-> None]

\* Variant: the file is always opened for writing from scratch.
OpenModeAlwaysW(cf) == "w"

\* mode of open(): "a" when the checkpoint reader returned a cursor
\* (ms2.py 277-281, scraper2.py 245-249).
OpenMode(cf) == IF cf # None THEN "a" ELSE "w"

\* ------------------------------------------------------------------ work items
\* Variant: every item is put with the path of the first top-level link.
WorkItemFirst(i, cf) == [path |-> <<0>>, cf |-> cf]

\* (href, [i], branch_continue_from) (ms2.py 313).
WorkItem(i, cf) == [path |-> <<i>>, cf |-> cf]

\* Variant: every top-level item carries the checkpoint.
BranchContinueFromAll(i, start_branch_idx, cf) == cf

\* branch_continue_from of top-level link i (ms2.py 309-311).
BranchContinueFrom(i, start_branch_idx, cf) ==
  IF i = start_branch_idx /\ Truthy(cf) THEN cf ELSE None

\* start_branch_idx (ms2.py 301-303).
StartBranchIdx(cf) == IF Truthy(cf) THEN cf.p[1] ELSE 0

\* Variant: every top-level link is put on the queue twice.
EnqueueFromTwice(i, n, start_branch_idx, cf) ==
  LET lo == IF i < start_branch_idx THEN start_branch_idx ELSE i
  IN [k \in 1..(IF n > lo THEN 2 * (n - lo) ELSE 0) |->
        WorkItem(lo + (k - 1) \div 2,
                 BranchContinueFrom(lo + (k - 1) \div 2, start_branch_idx, cf))]

RECURSIVE EnqueueFrom(_, _, _, _)
\* The enqueue loop over enumerate(links), from index i on (ms2.py 305-313).
EnqueueFrom(i, n, start_branch_idx, cf) ==
  IF i >= n THEN <<>>
  ELSE IF i < start_branch_idx THEN EnqueueFrom(i + 1, n, start_branch_idx, cf)
  ELSE <<WorkItem(i, BranchContinueFrom(i, start_branch_idx, cf))>>
         \o EnqueueFrom(i + 1, n, start_branch_idx, cf)

\* ------------------------------------------------------------------ state
VARIABLES
  tree,        \* the remote tree (stable across runs)
  outfile,     \* <save_dir>/<state>.jsonl: the sequence of writes
  failed,      \* FAILED_FAILPATH: one URL per line
  run,         \* number of invocations started so far
  prog,        \* "ms2" or "scraper2": the script of the current invocation
  resume,      \* ms2 --resume / scraper2 not --overwrite
  nthreads,    \* ms2 --threads
  mpc,         \* position of the main thread in collect_codes_for_state
  cursor,      \* continue_from of collect_codes_for_state
  mode,        \* mode of open(): "w" or "a"
  queue,       \* work_queue
  started,     \* number of worker threads started
  lock,        \* file_lock: 0 when free, else the holder
  thr,         \* per thread: pc and the stack of scrape_branch/helper calls
  fetches,     \* per node: requests.get calls of its URL in this invocation
  statusFails, \* nodes whose fetch in scrape_branch/helper/process_code_leaf
               \* returned a non-200 status in this invocation, in order
  excs,        \* exceptions raised in this invocation: [kind, p]
  rootFail,    \* ms2: the root fetch returned a non-200 status
  faultsBefore,\* failures and exceptions of the earlier invocations
  startFile,   \* outfile when this invocation started
  failBase,    \* Len(failed) when this invocation started
  gets,        \* ms2, per top-level node: the get_nowait() calls that returned
               \* its work item in this invocation
  reads,       \* the calls of get_last_lex_path in this invocation
  \* ms.py and multi_scraper.py (process_states_in_parallel):
  script,         \* "ms" or "multi_scraper"
  files,          \* per job: <save_dir>/<state>.jsonl, [exists, data]
  continue_from,  \* ms.py, per job: continue_from of collect_leaf_urls
  workers,        \* per job: pc and the stack of helper calls of its thread
  progress_queue, \* the module's progress_queue
  ppc,            \* position of the main thread in process_states_in_parallel
  ai,             \* any(thread.is_alive() ...): the thread examined next
  state_progress, \* per job: completed, failed, last (None for "")
  prior,          \* per job: the lines of its file when the process started
  pfaults,        \* failed fetches and raised exceptions so far
  regs,           \* the `regs` argument: the regulations instead of the codes
  sent,           \* per job: the events its worker has put, each with the node
                  \* the worker was at
  handled         \* per job: the events the loop has taken from the queue

\* The variables of ms2.py / scraper2.py.
crawlVars == << outfile, run, prog, resume, nthreads, mpc, cursor, mode,
                queue, started, lock, thr, fetches, statusFails, excs, rootFail,
                faultsBefore, startFile, failBase, gets, reads >>

\* The variables of ms.py / multi_scraper.py.
aggVars == << script, files, continue_from, workers, progress_queue, ppc, ai,
              state_progress, prior, pfaults, regs, sent, handled >>

vars == << tree, failed, crawlVars, aggVars >>

Threads == 1..MaxThreads

\* The jobs (states) of one process_states_in_parallel call.
Jobs == 1..MaxJobs

NoFile == [exists |-> FALSE, data |-> <<>>]

IdleThread == [pc |-> "idle", stack |-> <<>>]

Frame(path, cf) == [path |-> path, cf |-> cf, start |-> 0, i |-> 0]

Top(stk) == stk[Len(stk)]
Pop(stk) == SubSeq(stk, 1, Len(stk) - 1)

Faults == faultsBefore + Len(statusFails) + Len(excs) + (IF rootFail THEN 1 ELSE 0)

\* collect_codes_for_state was left by the exception of get_last_lex_path,
\* before open(): the only exception that is not one of a fetch or extraction.
ReaderRaised == mpc = "crashed" /\ excs = <<>>

\* The writes of this invocation to the output file so far.
Written ==
  IF mode = "a" \/ mpc \in {"read_ckpt", "open"} \/ ReaderRaised
    THEN SubSeq(outfile, Len(startFile) + 1, Len(outfile))
    ELSE outfile

\* What a requests.get may do: answer 200, answer another status, or raise.
FetchOutcomes == IF Faults < MaxFaults THEN {"ok", "status", "transport"} ELSE {"ok"}

\* What the extraction of a fetched leaf may do: succeed, or raise because a
\* required marker (breadcrumb-sep, breadcrumbs, h1, codes-content) is missing.
ExtractOutcomes == IF Faults < MaxFaults THEN {"ok", "extract"} ELSE {"ok"}

\* process_states_in_parallel is not running.
AggIdle ==
  /\ script = "ms"
  /\ files = [j \in Jobs |-> NoFile]
  /\ continue_from = [j \in Jobs |-> None]
  /\ workers = [j \in Jobs |-> IdleThread]
  /\ progress_queue = <<>>
  /\ ppc = "idle"
  /\ ai = 1
  /\ state_progress = [j \in Jobs |-> [completed |-> 0, failed |-> 0, last |-> None]]
  /\ prior = [j \in Jobs |-> 0]
  /\ pfaults = 0
  /\ regs = FALSE
  /\ sent = [j \in Jobs |-> <<>>]
  /\ handled = [j \in Jobs |-> <<>>]

Init ==
  /\ tree \in SampleTrees
  /\ outfile = <<>>
  /\ failed = <<>>
  /\ run = 0
  /\ prog = "ms2"
  /\ resume = FALSE
  /\ nthreads = 1
  /\ mpc = "idle"
  /\ cursor = None
  /\ mode = "w"
  /\ queue = <<>>
  /\ started = 0
  /\ lock = 0
  /\ thr = [t \in Threads |-> IdleThread]
  /\ fetches = [n \in tree.nodes |-> 0]
  /\ statusFails = <<>>
  /\ excs = <<>>
  /\ rootFail = FALSE
  /\ faultsBefore = 0
  /\ startFile = <<>>
  /\ failBase = 0
  /\ gets = [n \in Children(tree, <<>>) |-> 0]
  /\ reads = 0
  /\ AggIdle

\* ------------------------------------------------------------------ main thread
\* The command line: a new invocation of ms2.py or scraper2.py.
Start ==
  /\ mpc \in {"idle", "returned", "crashed", "interrupted"}
  /\ run < MaxRuns
  /\ \E pr \in {"ms2", "scraper2"}, rs \in BOOLEAN, nt \in Threads :
       /\ pr = "scraper2" => nt = 1
       /\ prog' = pr
       /\ resume' = rs
       /\ nthreads' = nt
  /\ run' = run + 1
  /\ mpc' = "read_ckpt"
  /\ cursor' = None
  /\ mode' = "w"
  /\ queue' = <<>>
  /\ started' = 0
  /\ lock' = 0
  /\ thr' = [t \in Threads |-> IdleThread]
  /\ fetches' = [n \in tree.nodes |-> 0]
  /\ faultsBefore' = Faults
  /\ statusFails' = <<>>
  /\ excs' = <<>>
  /\ rootFail' = FALSE
  /\ startFile' = outfile
  /\ failBase' = Len(failed)
  /\ gets' = [n \in Children(tree, <<>>) |-> 0]
  /\ reads' = 0
  /\ UNCHANGED << tree, outfile, failed >>
  /\ UNCHANGED aggVars

\* Variant: the checkpoint reader is called whatever the command line says.
ReaderCalledAlways(rs) == TRUE

\* `if resume:` (ms2.py 278), `if not overwrite:` (scraper2.py 246): the
\* checkpoint reader is called only when the run is to resume.
ReaderCalled(rs) == rs

\* continue_from / mode (ms2.py 276-281, scraper2.py 244-249).
ReadCheckpoint ==
  /\ mpc = "read_ckpt"
  /\ IF ReaderCalled(resume)
       THEN LET r == GetLastLexPath(outfile)
            IN /\ reads' = reads + 1
               /\ IF r.raised
                    THEN /\ mpc' = "crashed"
                         /\ UNCHANGED << cursor, mode >>
                    ELSE /\ cursor' = r.val
                         /\ mode' = OpenMode(r.val)
                         /\ mpc' = "open"
       ELSE /\ mpc' = "open"
            /\ UNCHANGED << cursor, mode, reads >>
  /\ UNCHANGED << tree, outfile, failed, run, prog, resume, nthreads, queue, started,
                  lock, thr, fetches, statusFails, excs, rootFail, faultsBefore,
                  startFile, failBase, gets >>
  /\ UNCHANGED aggVars

\* open(path, mode) (ms2.py 283, scraper2.py 252); scraper2 then calls
\* helper(init_url, [], continue_from) (scraper2.py 214).
OpenFile ==
  /\ mpc = "open"
  /\ outfile' = IF mode = "w" THEN <<>> ELSE outfile
  /\ IF prog = "ms2"
       THEN /\ mpc' = "root_fetch"
            /\ UNCHANGED thr
       ELSE /\ mpc' = "crawl"
            /\ thr' = [thr EXCEPT ![1] = [pc |-> "fetch", stack |-> <<Frame(<<>>, cursor)>>]]
  /\ UNCHANGED << tree, failed, run, prog, resume, nthreads, cursor, mode, queue,
                  started, lock, fetches, statusFails, excs, rootFail, faultsBefore,
                  startFile, failBase, gets, reads >>
  /\ UNCHANGED aggVars

\* Variant: the status of the root response is not tested.
AfterRootFetchAnyStatus(o) == IF IsBranch(tree, <<>>) THEN "enqueue" ELSE "returned"

\* Where collect_codes_for_state goes after the root response: the two early
\* returns, or on to the queue (ms2.py 285-293).
AfterRootFetch(o) ==
  IF o = "status" THEN "returned"
  ELSE IF IsBranch(tree, <<>>) THEN "enqueue" ELSE "returned"

\* The fetch of state_init_url and the two early returns (ms2.py 284-293).
RootFetch ==
  /\ mpc = "root_fetch"
  /\ fetches' = [fetches EXCEPT ![<<>>] = @ + 1]
  /\ \E o \in FetchOutcomes :
       \/ /\ o = "ok"
          /\ mpc' = AfterRootFetch(o)
          /\ UNCHANGED << rootFail, excs >>
       \/ /\ o = "status"
          /\ rootFail' = TRUE
          /\ mpc' = AfterRootFetch(o)
          /\ UNCHANGED excs
       \/ /\ o = "transport"
          /\ excs' = Append(excs, [kind |-> "transport", p |-> <<>>])
          /\ mpc' = "crashed"
          /\ UNCHANGED rootFail
  /\ UNCHANGED << tree, outfile, failed, run, prog, resume, nthreads, cursor, mode,
                  queue, started, lock, thr, statusFails, faultsBefore, startFile,
                  failBase, gets, reads >>
  /\ UNCHANGED aggVars

\* The enqueue loop (ms2.py 298-313).
Enqueue ==
  /\ mpc = "enqueue"
  /\ queue' = EnqueueFrom(0, NumLinks(tree, <<>>), StartBranchIdx(cursor), cursor)
  /\ mpc' = "spawn"
  /\ UNCHANGED << tree, outfile, failed, run, prog, resume, nthreads, cursor, mode,
                  started, lock, thr, fetches, statusFails, excs, rootFail,
                  faultsBefore, startFile, failBase, gets, reads >>
  /\ UNCHANGED aggVars

\* One round of the loop that starts the threads (ms2.py 317-332).
SpawnThread ==
  /\ mpc = "spawn"
  /\ started < nthreads
  /\ thr' = [thr EXCEPT ![started + 1] = [pc |-> "check", stack |-> <<>>]]
  /\ started' = started + 1
  /\ mpc' = IF started + 1 = nthreads THEN "join" ELSE "spawn"
  /\ UNCHANGED << tree, outfile, failed, run, prog, resume, nthreads, cursor, mode,
                  queue, lock, fetches, statusFails, excs, rootFail, faultsBefore,
                  startFile, failBase, gets, reads >>
  /\ UNCHANGED aggVars

\* thread.join() of every thread, then the function returns (ms2.py 334-337).
Join ==
  /\ mpc = "join"
  /\ \A t \in 1..nthreads : thr[t].pc \in {"done", "dead"}
  /\ mpc' = "returned"
  /\ UNCHANGED << tree, outfile, failed, run, prog, resume, nthreads, cursor, mode,
                  queue, started, lock, thr, fetches, statusFails, excs, rootFail,
                  faultsBefore, startFile, failBase, gets, reads >>
  /\ UNCHANGED aggVars

\* collect_leaf_urls returns, or an exception of the crawl leaves the function
\* (scraper2.py 252-260).
CrawlReturn ==
  /\ mpc = "crawl"
  /\ thr[1].pc \in {"done", "dead"}
  /\ mpc' = IF thr[1].pc = "done" THEN "returned" ELSE "crashed"
  /\ UNCHANGED << tree, outfile, failed, run, prog, resume, nthreads, cursor, mode,
                  queue, started, lock, thr, fetches, statusFails, excs, rootFail,
                  faultsBefore, startFile, failBase, gets, reads >>
  /\ UNCHANGED aggVars

\* What the file holds after the process is killed with the writes f made so
\* far, the last n of them by this process: all of them, or, when the last one
\* is a JSON text still without its line break, a cut of that text.
AfterKill(f, n) ==
  {f} \cup (IF n > 0 /\ f[Len(f)].k = "json"
             THEN { Append(SubSeq(f, 1, Len(f) - 1), Part(f[Len(f)].p)) }
             ELSE {})

\* The process is interrupted: every thread stops where it is and the state of
\* the process is gone; the writes made so far stay in the files.
Interrupt ==
  /\ mpc \in {"read_ckpt", "open", "root_fetch", "enqueue", "spawn", "join", "crawl"}
  /\ mpc' = "interrupted"
  /\ outfile' \in AfterKill(outfile, Len(Written))
  /\ thr' = [t \in Threads |-> IdleThread]
  /\ queue' = <<>>
  /\ lock' = 0
  /\ cursor' = None
  /\ mode' = "w"
  /\ started' = 0
  /\ fetches' = [n \in tree.nodes |-> 0]
  /\ faultsBefore' = Faults
  /\ statusFails' = <<>>
  /\ excs' = <<>>
  /\ rootFail' = FALSE
  /\ startFile' = <<>>
  /\ failBase' = 0
  /\ gets' = [n \in Children(tree, <<>>) |-> 0]
  /\ reads' = 0
  /\ UNCHANGED << tree, failed, run, prog, resume, nthreads >>
  /\ UNCHANGED aggVars

\* ------------------------------------------------------------------ workers
RECURSIVE ForLoop(_)
\* The thread whose innermost active call (the top of stk) is at the head of
\* `for i, link in enumerate(links)` with i >= start_idx: the call for child i
\* with new_path and new_continue_from, or the end of the loop and the return
\* to the caller's loop (ms2.py 180-203, scraper2.py 184-196). When the
\* outermost call has returned, ms2's worker calls task_done() and tests the
\* queue again (ms2.py 251, 233) and scraper2's collect_leaf_urls ends.
ForLoop(stk) ==
  IF stk = <<>>
    THEN [pc |-> IF prog = "ms2" THEN "check" ELSE "done", stack |-> <<>>]
    ELSE LET f == Top(stk)
         IN IF f.i < NumLinks(tree, f.path)
              THEN [pc    |-> "fetch",
                    stack |-> Append(Append(Pop(stk), [f EXCEPT !.i = f.i + 1]),
                                     Frame(f.path \o <<f.i>>,
                                           NewContinueFrom(f.cf, f.i, f.start)))]
              ELSE ForLoop(Pop(stk))

\* The innermost call returns.
Returned(stk) == ForLoop(Pop(stk))

\* An exception leaves every active call: the thread ends (ms2: the worker
\* thread dies; scraper2: the exception reaches collect_codes_for_state).
Raised == [pc |-> "dead", stack |-> <<>>]

\* `while not work_queue.empty()` (ms2.py 233).
WorkerCheck(t) ==
  /\ thr[t].pc = "check"
  /\ thr' = [thr EXCEPT ![t].pc = IF queue = <<>> THEN "done" ELSE "get"]
  /\ UNCHANGED << tree, outfile, failed, run, prog, resume, nthreads, mpc, cursor,
                  mode, queue, started, lock, fetches, statusFails, excs, rootFail,
                  faultsBefore, startFile, failBase, gets, reads >>
  /\ UNCHANGED aggVars

\* Variant: a LifoQueue, the item put last is returned first.
QueueGetLifo(q) == [item |-> q[Len(q)], rest |-> SubSeq(q, 1, Len(q) - 1)]

\* get_nowait() of a non-empty queue.Queue: the item put first, removed from
\* the queue (ms2.py 235, 298).
QueueGet(q) == [item |-> Head(q), rest |-> Tail(q)]

\* work_queue.get_nowait(); queue.Empty ends the worker (ms2.py 234-250).
WorkerGet(t) ==
  /\ thr[t].pc = "get"
  /\ IF queue = <<>>
       THEN /\ thr' = [thr EXCEPT ![t].pc = "done"]
            /\ UNCHANGED << queue, gets >>
       ELSE LET g == QueueGet(queue)
            IN /\ thr' = [thr EXCEPT ![t] =
                            [pc |-> "fetch", stack |-> <<Frame(g.item.path, g.item.cf)>>]]
               /\ queue' = g.rest
               /\ gets' = [gets EXCEPT ![g.item.path] = @ + 1]
  /\ UNCHANGED << tree, outfile, failed, run, prog, resume, nthreads, mpc, cursor,
                  mode, started, lock, fetches, statusFails, excs, rootFail,
                  faultsBefore, startFile, failBase, reads >>
  /\ UNCHANGED aggVars

\* The fetch that opens scrape_branch/helper and the classification of the page
\* (ms2.py 164-178, 204-207, 212; scraper2.py 168-182, 197-200, 207);
\* on a branch page the loop over its links starts.
Fetch(t) ==
  /\ thr[t].pc = "fetch"
  /\ LET stk == thr[t].stack
         f   == Top(stk)
     IN /\ fetches' = [fetches EXCEPT ![f.path] = @ + 1]
        /\ \E o \in FetchOutcomes :
             \/ /\ o = "ok"
                /\ IsBranch(tree, f.path)
                /\ LET s == StartIdx(f.path, f.cf)
                   IN thr' = [thr EXCEPT ![t] =
                         ForLoop(Append(Pop(stk), [f EXCEPT !.start = s, !.i = s]))]
                /\ UNCHANGED << statusFails, excs >>
             \/ /\ o = "ok"
                /\ ~IsBranch(tree, f.path)
                /\ thr' = [thr EXCEPT ![t] =
                     IF SkipLeaf(f.path, f.cf)
                       THEN Returned(stk)
                       ELSE [pc |-> "leaf_fetch", stack |-> stk]]
                /\ UNCHANGED << statusFails, excs >>
             \/ /\ o = "status"
                /\ statusFails' = Append(statusFails, f.path)
                /\ thr' = [thr EXCEPT ![t].pc = "log_fail"]
                /\ UNCHANGED excs
             \/ /\ o = "transport"
                /\ excs' = Append(excs, [kind |-> "transport", p |-> f.path])
                /\ thr' = [thr EXCEPT ![t] = Raised]
                /\ UNCHANGED statusFails
  /\ UNCHANGED << tree, outfile, failed, run, prog, resume, nthreads, mpc, cursor,
                  mode, queue, started, lock, rootFail, faultsBefore, startFile,
                  failBase, gets, reads >>
  /\ UNCHANGED aggVars

\* The fetch and the extraction of process_code_leaf (ms2.py 69-105, 113;
\* scraper2.py 62-98, 103).
LeafFetch(t) ==
  /\ thr[t].pc = "leaf_fetch"
  /\ LET f == Top(thr[t].stack)
     IN /\ fetches' = [fetches EXCEPT ![f.path] = @ + 1]
        /\ \E o \in FetchOutcomes \cup ExtractOutcomes :
             \/ /\ o = "ok"
                /\ thr' = [thr EXCEPT ![t].pc = IF prog = "ms2" THEN "lock" ELSE "write_json"]
                /\ UNCHANGED << statusFails, excs >>
             \/ /\ o = "status"
                /\ statusFails' = Append(statusFails, f.path)
                /\ thr' = [thr EXCEPT ![t].pc = "log_fail"]
                /\ UNCHANGED excs
             \/ /\ o \in {"transport", "extract"}
                /\ excs' = Append(excs, [kind |-> o, p |-> f.path])
                /\ thr' = [thr EXCEPT ![t] = Raised]
                /\ UNCHANGED statusFails
  /\ UNCHANGED << tree, outfile, failed, run, prog, resume, nthreads, mpc, cursor,
                  mode, queue, started, lock, rootFail, faultsBefore, startFile,
                  failBase, gets, reads >>
  /\ UNCHANGED aggVars

\* Variant: no mutual exclusion, the lock is granted to whoever asks.
CanAcquireAlways(l) == TRUE

\* threading.Lock: acquire succeeds only while nobody holds it (ms2.py 108, 299).
CanAcquire(l) == l = 0

\* `with lock:` (ms2.py 108).
AcquireLock(t) ==
  /\ thr[t].pc = "lock"
  /\ CanAcquire(lock)
  /\ lock' = t
  /\ thr' = [thr EXCEPT ![t].pc = "write_json"]
  /\ UNCHANGED << tree, outfile, failed, run, prog, resume, nthreads, mpc, cursor,
                  mode, queue, started, fetches, statusFails, excs, rootFail,
                  faultsBefore, startFile, failBase, gets, reads >>
  /\ UNCHANGED aggVars

\* jsonl_fp.write(json.dumps(record)) (ms2.py 109, scraper2.py 101).
WriteJson(t) ==
  /\ thr[t].pc = "write_json"
  /\ outfile' = Append(outfile, Json(Top(thr[t].stack).path))
  /\ thr' = [thr EXCEPT ![t].pc = "write_nl"]
  /\ UNCHANGED << tree, failed, run, prog, resume, nthreads, mpc, cursor, mode,
                  queue, started, lock, fetches, statusFails, excs, rootFail,
                  faultsBefore, startFile, failBase, gets, reads >>
  /\ UNCHANGED aggVars

\* jsonl_fp.write("\n"), the end of `with lock:` and the return of
\* process_code_leaf and of the call for the leaf (ms2.py 110-112, scraper2.py 102).
WriteNl(t) ==
  /\ thr[t].pc = "write_nl"
  /\ outfile' = Append(outfile, NL)
  /\ lock' = IF lock = t THEN 0 ELSE lock
  /\ thr' = [thr EXCEPT ![t] = Returned(thr[t].stack)]
  /\ UNCHANGED << tree, failed, run, prog, resume, nthreads, mpc, cursor, mode,
                  queue, started, fetches, statusFails, excs, rootFail,
                  faultsBefore, startFile, failBase, gets, reads >>
  /\ UNCHANGED aggVars

\* Variant: a failed fetch ends the thread like an uncaught exception.
AfterLogFailAbort(stk) == Raised

\* After the failure is logged the call ends normally and the caller's loop goes
\* on with the next link (ms2.py 212-217, 113-118).
AfterLogFail(stk) == Returned(stk)

\* Variant: the URL is written to the failure log twice.
FailLinesTwice(url) == <<url, url>>

\* f.write(f"{url}\n") to FAILED_FAILPATH (ms2.py 117-118, 216-217).
FailLines(url) == <<url>>

\* The else branch of a failed fetch: the URL goes to the failure log and the
\* call returns (ms2.py 113-118, 212-217; scraper2.py 103-108, 207-212).
LogFail(t) ==
  /\ thr[t].pc = "log_fail"
  /\ failed' = failed \o FailLines(Top(thr[t].stack).path)
  /\ thr' = [thr EXCEPT ![t] = AfterLogFail(thr[t].stack)]
  /\ UNCHANGED << tree, outfile, run, prog, resume, nthreads, mpc, cursor, mode,
                  queue, started, lock, fetches, statusFails, excs, rootFail,
                  faultsBefore, startFile, failBase, gets, reads >>
  /\ UNCHANGED aggVars

Next ==
  \/ Start
  \/ ReadCheckpoint
  \/ OpenFile
  \/ RootFetch
  \/ Enqueue
  \/ SpawnThread
  \/ Join
  \/ CrawlReturn
  \/ Interrupt
  \/ \E t \in Threads :
       \/ WorkerCheck(t)
       \/ WorkerGet(t)
       \/ Fetch(t)
       \/ LeafFetch(t)
       \/ AcquireLock(t)
       \/ WriteJson(t)
       \/ WriteNl(t)
       \/ LogFail(t)

Spec == Init /\ [][Next]_vars

\* ------------------------------------------------------------------ the checkpoint reader alone
\* The JSON texts a line of <save_dir>/<state>.jsonl can hold: records of ms2.py
\* and scraper2.py (with lex_path, [] for a root leaf) and of ms.py and
\* multi_scraper.py (without).
ReaderRecords == { Json(<<0,0>>), Json(<<1,1>>), Json(<<>>), JsonUrl(<<0,1>>) }

RECURSIVE LineFiles(_)
\* The files of exactly k complete record lines.
LineFiles(k) ==
  IF k = 0 THEN { <<>> }
  ELSE { f \o <<x, NL>> : f \in LineFiles(k - 1), x \in ReaderRecords }

\* What the scripts of the repository and a kill can leave in the file: up to
\* MaxLines complete lines, then nothing, an unterminated JSON text or a cut one.
ReaderFiles ==
  { f \o t : f \in UNION { LineFiles(k) : k \in 0..MaxLines },
             t \in { <<>> } \cup { <<x>> : x \in ReaderRecords \cup { Part(<<0,2>>) } } }

\* collect_codes_for_state of ms2.py (--resume) or scraper2.py (no --overwrite)
\* is called with the file in any of these states.
InitReader ==
  /\ tree = TreeAB
  /\ outfile \in ReaderFiles
  /\ failed = <<>>
  /\ run = 1
  /\ prog \in {"ms2", "scraper2"}
  /\ resume = TRUE
  /\ nthreads = 1
  /\ mpc = "read_ckpt"
  /\ cursor = None
  /\ mode = "w"
  /\ queue = <<>>
  /\ started = 0
  /\ lock = 0
  /\ thr = [t \in Threads |-> IdleThread]
  /\ fetches = [n \in tree.nodes |-> 0]
  /\ statusFails = <<>>
  /\ excs = <<>>
  /\ rootFail = FALSE
  /\ faultsBefore = 0
  /\ startFile = outfile
  /\ failBase = 0
  /\ gets = [n \in Children(tree, <<>>) |-> 0]
  /\ reads = 0
  /\ AggIdle

\* The reader and the open() that follows it.
NextReader ==
  \/ ReadCheckpoint
  \/ OpenFile

SpecReader == InitReader /\ [][NextReader]_vars

\* ------------------------------------------------------------------ ms.py, multi_scraper.py
\* A root with a leaf and a branch of one leaf.
TreeSmall ==
  [ nodes    |-> { <<>>, <<0>>, <<1>>, <<1,0>> },
    branches |-> { <<>>, <<1>> } ]

\* Every job crawls a tree of the same shape.
AggTrees == { TreeRootLeaf, TreeSmall }

\* sum(1 for _ in f): the lines of a text file, an unterminated last one
\* included (ms.py 98-100).
NumLines(f) ==
  Cardinality({ i \in 1..Len(f) : f[i].k = "nl" })
    + (IF Len(f) > 0 /\ f[Len(f)].k # "nl" THEN 1 ELSE 0)

\* get_last_path: [raised, val]. The same backward scan as get_last_lex_path
\* without the test for an empty file; json.loads(last_line)["url"] and
\* _href_to_path give the path of the last recorded node (ms.py 69-83).
\* breakpoint() (ms.py 80) is taken to return.
GetLastPath(f) ==
  IF Len(f) = 0
    THEN [raised |-> TRUE, val |-> None]
    ELSE LET line == LastLine(f)
         IN IF Len(line) = 1 /\ line[1].k \in {"json", "json_url"}
              THEN [raised |-> FALSE, val |-> Some(line[1].p)]
              ELSE [raised |-> TRUE, val |-> None]

\* The indices i, j, ... of the sequence from..(n - 1).
IndicesFrom(from, n) == [k \in 1..(n - from) |-> from + k - 1]

\* extract_links_from_content: every link of the listing (ms.py 103-109).
ExtractLinksFromContent(path) == IndicesFrom(0, NumLinks(tree, path))

\* extract_links_after: the first link whose path is a prefix of continue_from
\* and every link after it; nothing when no link is (ms.py 134-148).
ExtractLinksAfter(path, cf) ==
  LET M == { i \in 0..(NumLinks(tree, path) - 1) :
               path \o <<i>> = Slice(cf.p, Len(path) + 1) }
  IN IF M = {} THEN <<>>
     ELSE IndicesFrom(CHOOSE i \in M : \A k \in M : i <= k, NumLinks(tree, path))

HelperFrame(path) == [path |-> path, links |-> <<>>]

RECURSIVE HelperLoop(_)
\* `for link in internal_links: helper(...)` of the innermost active call: the
\* call for the next link, or the return to the caller's loop; the thread ends
\* when the outermost call has returned (ms.py 217-219, 244, 268-276;
\* multi_scraper.py 86-88, 105, 121-124).
HelperLoop(stk) ==
  IF stk = <<>>
    THEN [pc |-> "done", stack |-> <<>>]
    ELSE LET f == Top(stk)
         IN IF f.links # <<>>
              THEN [pc    |-> "fetch",
                    stack |-> Append(Append(Pop(stk), [f EXCEPT !.links = Tail(f.links)]),
                                     HelperFrame(f.path \o <<Head(f.links)>>))]
              ELSE HelperLoop(Pop(stk))

\* The innermost call of helper returns.
HelperReturned(stk) == HelperLoop(Pop(stk))

\* A text is the sequence of its characters. The text of a jurisdiction
\* ("mississippi/2023/", "arizona/") and the text of one link below it
\* ("title-21/", "chapter-7/") are kept as one unit each.
\* "https://law.justia.com/codes/": JUSTIA_BASE_URL and the start of every
\* href of the codes (ms.py 64, 254; multi_scraper.py 113).
CodesUrl ==
  << "h", "t", "t", "p", "s", ":", "/", "/", "l", "a", "w", ".",
     "j", "u", "s", "t", "i", "a", ".", "c", "o", "m",
     "/", "c", "o", "d", "e", "s", "/" >>

\* "https://regulations.justia.com/states/": REGULATIONS_BASE_URL and the
\* start of every href of the regulations (ms.py 66, 252; multi_scraper.py 111).
RegsUrl ==
  << "h", "t", "t", "p", "s", ":", "/", "/",
     "r", "e", "g", "u", "l", "a", "t", "i", "o", "n", "s", ".",
     "j", "u", "s", "t", "i", "a", ".", "c", "o", "m",
     "/", "s", "t", "a", "t", "e", "s", "/" >>

\* JUR_URL_MAP[state_name] with the year of the codes, per job.
JurText == << "jur-1/", "jur-2/", "jur-3/", "jur-4/" >>

\* The last segment of the href of the link with index i of a listing.
LinkText == << "link-0/", "link-1/", "link-2/" >>

\* The URL of the node at path p of job j: state_init_url for the root,
\* f"{site_url}{href}" below it (ms.py 251-255, 219; multi_scraper.py 110-114,
\* 88).
Url(j, p) ==
  (IF regs THEN RegsUrl ELSE CodesUrl)
    \o << JurText[j] >>
    \o [k \in 1..Len(p) |-> LinkText[p[k] + 1]]

\* f"last:{url}" (ms.py 176, 180, 186, 234, 240; multi_scraper.py 53, 57, 63,
\* 95, 101).
LastStatus(url) == << "l", "a", "s", "t", ":" >> \o url

\* status[5 + 29 :] (ms.py 318, multi_scraper.py 164).
LastSeen(status) == SubSeq(status, 5 + 29 + 1, Len(status))

\* Variant: every event carries the name of the first job.
EventFirstJob(j, status, url) == [job |-> 1, status |-> status, url |-> url]

\* An event of the progress queue: (state_name, status); `url` is the text of
\* a "last:<url>" status.
Event(j, status, url) == [job |-> j, status |-> status, url |-> url]

\* What a requests.get of a worker may do.
PFetchOutcomes == IF pfaults < MaxFaults THEN {"ok", "status", "transport"} ELSE {"ok"}

\* What the extraction of process_code_leaf may do.
PExtractOutcomes == IF pfaults < MaxFaults THEN {"ok", "extract"} ELSE {"ok"}

\* The files an earlier run of ms.py can have left for a job: none, or the
\* records of the first k leaves in pre-order (k = 0: a run killed before its
\* first write).
PriorFiles ==
  { NoFile } \cup
  { [exists |-> TRUE,
     data |-> LET d == Dfs(tree, <<>>)
              IN [i \in 1..(2 * k) |-> IF i % 2 = 1 THEN JsonUrl(d[(i + 1) \div 2]) ELSE NL]] :
      k \in 0..Len(Dfs(tree, <<>>)) }

\* process_states_in_parallel is called.
InitAgg ==
  /\ tree \in AggTrees
  /\ failed = <<>>
  /\ outfile = <<>>
  /\ run = 0
  /\ prog = "ms2"
  /\ resume = FALSE
  /\ nthreads = 1
  /\ mpc = "idle"
  /\ cursor = None
  /\ mode = "w"
  /\ queue = <<>>
  /\ started = 0
  /\ lock = 0
  /\ thr = [t \in Threads |-> IdleThread]
  /\ fetches = [n \in tree.nodes |-> 0]
  /\ statusFails = <<>>
  /\ excs = <<>>
  /\ rootFail = FALSE
  /\ faultsBefore = 0
  /\ startFile = <<>>
  /\ failBase = 0
  /\ gets = [n \in Children(tree, <<>>) |-> 0]
  /\ reads = 0
  /\ script \in {"ms", "multi_scraper"}
  /\ files \in [Jobs -> PriorFiles]
  /\ script = "multi_scraper" => files = [j \in Jobs |-> NoFile]
  /\ continue_from = [j \in Jobs |-> None]
  /\ workers = [j \in Jobs |-> IdleThread]
  /\ progress_queue = <<>>
  /\ ppc = "start"
  /\ ai = 1
  /\ state_progress = [j \in Jobs |-> [completed |-> 0, failed |-> 0, last |-> None]]
  /\ prior = [j \in Jobs |-> NumLines(files[j].data)]
  /\ pfaults = 0
  /\ regs \in BOOLEAN
  /\ sent = [j \in Jobs |-> <<>>]
  /\ handled = [j \in Jobs |-> <<>>]

\* thread.start() of the next job's thread; after the last one the progress
\* bars and counters are set up and the loop begins (ms.py 290-305).
StartWorker ==
  /\ ppc = "start"
  /\ LET j == CHOOSE k \in Jobs : workers[k].pc = "idle" /\ \A m \in Jobs : m < k => workers[m].pc # "idle"
     IN /\ workers' = [workers EXCEPT ![j].pc = "begin"]
        /\ ppc' = IF j = MaxJobs THEN "alive" ELSE "start"
  /\ ai' = 1
  /\ UNCHANGED << tree, failed, crawlVars, script, files, continue_from, progress_queue,
                  state_progress, prior, pfaults,
                  regs, sent, handled >>

\* collect_codes_for_state up to the first call of helper: continue_from, mode
\* and open() (ms.py 262-268, 244; multi_scraper.py 121, 105). An exception of
\* get_last_path ends the thread.
WorkerBegin(j) ==
  /\ workers[j].pc = "begin"
  /\ IF script = "ms" /\ files[j].exists
       THEN LET r == GetLastPath(files[j].data)
            IN IF r.raised
                 THEN /\ workers' = [workers EXCEPT ![j] = Raised]
                      /\ UNCHANGED << continue_from, files >>
                 ELSE /\ continue_from' = [continue_from EXCEPT ![j] = r.val]
                      /\ workers' = [workers EXCEPT ![j] =
                           [pc |-> "fetch", stack |-> <<HelperFrame(<<>>)>>]]
                      /\ UNCHANGED files
       ELSE /\ files' = [files EXCEPT ![j] = [exists |-> TRUE, data |-> <<>>]]
            /\ workers' = [workers EXCEPT ![j] =
                 [pc |-> "fetch", stack |-> <<HelperFrame(<<>>)>>]]
            /\ UNCHANGED continue_from
  /\ UNCHANGED << tree, failed, crawlVars, script, progress_queue, ppc, ai,
                  state_progress, prior, pfaults,
                  regs, sent, handled >>

\* The fetch of helper and the classification of the page (ms.py 205-230,
\* 231-242; multi_scraper.py 80-91, 92-103). breakpoint() (ms.py 222, 228) is
\* taken to return.
HelperFetch(j) ==
  /\ workers[j].pc = "fetch"
  /\ LET stk == workers[j].stack
         f   == Top(stk)
         cf  == continue_from[j]
     IN \E o \in PFetchOutcomes :
          \/ /\ o = "ok"
             /\ IsBranch(tree, f.path)
             /\ LET links == IF cf = None THEN ExtractLinksFromContent(f.path)
                             ELSE ExtractLinksAfter(f.path, cf)
                IN workers' = [workers EXCEPT ![j] =
                      HelperLoop(Append(Pop(stk), [f EXCEPT !.links = links]))]
             /\ UNCHANGED << continue_from, pfaults >>
          \/ /\ o = "ok"
             /\ ~IsBranch(tree, f.path)
             /\ IF cf # None
                  THEN IF cf.p = f.path
                         THEN /\ continue_from' = [continue_from EXCEPT ![j] = None]
                              /\ workers' = [workers EXCEPT ![j].pc = "put_batch"]
                         ELSE /\ workers' = [workers EXCEPT ![j] = HelperReturned(stk)]
                              /\ UNCHANGED continue_from
                  ELSE /\ workers' = [workers EXCEPT ![j].pc = "leaf_fetch"]
                       /\ UNCHANGED continue_from
             /\ UNCHANGED pfaults
          \/ /\ o \in {"status", "transport"}
             /\ pfaults' = pfaults + 1
             /\ workers' = [workers EXCEPT ![j].pc = "put_failed"]
             /\ UNCHANGED continue_from
  /\ UNCHANGED << tree, failed, crawlVars, script, files, progress_queue, ppc, ai,
                  state_progress, prior,
                  regs, sent, handled >>

\* progress_queue.put((state_name, "completed_batch")) and the return of the
\* call (ms.py 226).
PutBatch(j) ==
  /\ workers[j].pc = "put_batch"
  /\ progress_queue' = Append(progress_queue, Event(j, "completed_batch", <<>>))
  /\ sent' = [sent EXCEPT ![j] = Append(@, [event |-> Event(j, "completed_batch", <<>>),
                                            node  |-> Top(workers[j].stack).path])]
  /\ workers' = [workers EXCEPT ![j] = HelperReturned(workers[j].stack)]
  /\ UNCHANGED << tree, failed, crawlVars, script, files, continue_from, ppc, ai,
                  state_progress, prior, pfaults,
                  regs, handled >>

\* The fetch and the extraction of process_code_leaf (ms.py 153-168, 177, 183;
\* multi_scraper.py 30-46, 54, 60).
LeafGet(j) ==
  /\ workers[j].pc = "leaf_fetch"
  /\ \E o \in PFetchOutcomes \cup PExtractOutcomes :
       \/ /\ o = "ok"
          /\ workers' = [workers EXCEPT ![j].pc = "write_json"]
          /\ UNCHANGED pfaults
       \/ /\ o \in {"status", "transport", "extract"}
          /\ pfaults' = pfaults + 1
          /\ workers' = [workers EXCEPT ![j].pc = "put_failed"]
  /\ UNCHANGED << tree, failed, crawlVars, script, files, continue_from,
                  progress_queue, ppc, ai, state_progress, prior,
                  regs, sent, handled >>

\* jsonl_fp.write(json.dumps(record)) (ms.py 171, multi_scraper.py 50).
LeafWriteJson(j) ==
  /\ workers[j].pc = "write_json"
  /\ files' = [files EXCEPT ![j].data = Append(@, JsonUrl(Top(workers[j].stack).path))]
  /\ workers' = [workers EXCEPT ![j].pc = "write_nl"]
  /\ UNCHANGED << tree, failed, crawlVars, script, continue_from, progress_queue,
                  ppc, ai, state_progress, prior, pfaults,
                  regs, sent, handled >>

\* jsonl_fp.write("\n") (ms.py 172, multi_scraper.py 51).
LeafWriteNl(j) ==
  /\ workers[j].pc = "write_nl"
  /\ files' = [files EXCEPT ![j].data = Append(@, NL)]
  /\ workers' = [workers EXCEPT ![j].pc = "put_completed"]
  /\ UNCHANGED << tree, failed, crawlVars, script, continue_from, progress_queue,
                  ppc, ai, state_progress, prior, pfaults,
                  regs, sent, handled >>

\* progress_queue.put((state_name, "completed")) (ms.py 175, multi_scraper.py 52).
PutCompleted(j) ==
  /\ workers[j].pc = "put_completed"
  /\ progress_queue' = Append(progress_queue, Event(j, "completed", <<>>))
  /\ sent' = [sent EXCEPT ![j] = Append(@, [event |-> Event(j, "completed", <<>>),
                                            node  |-> Top(workers[j].stack).path])]
  /\ workers' = [workers EXCEPT ![j].pc = "put_last"]
  /\ UNCHANGED << tree, failed, crawlVars, script, files, continue_from, ppc, ai,
                  state_progress, prior, pfaults,
                  regs, handled >>

\* progress_queue.put((state_name, f"last:{url}")) after "completed" and the
\* return of process_code_leaf and of the call (ms.py 176, multi_scraper.py 53).
PutLast(j) ==
  /\ workers[j].pc = "put_last"
  /\ LET e == Event(j, "last", LastStatus(Url(j, Top(workers[j].stack).path)))
     IN /\ progress_queue' = Append(progress_queue, e)
        /\ sent' = [sent EXCEPT ![j] =
                     Append(@, [event |-> e, node |-> Top(workers[j].stack).path])]
  /\ workers' = [workers EXCEPT ![j] = HelperReturned(workers[j].stack)]
  /\ UNCHANGED << tree, failed, crawlVars, script, files, continue_from, ppc, ai,
                  state_progress, prior, pfaults,
                  regs, handled >>

\* progress_queue.put((state_name, "failed")) (ms.py 179, 185, 233, 239;
\* multi_scraper.py 56, 62, 94, 100).
PutFailed(j) ==
  /\ workers[j].pc = "put_failed"
  /\ progress_queue' = Append(progress_queue, Event(j, "failed", <<>>))
  /\ sent' = [sent EXCEPT ![j] = Append(@, [event |-> Event(j, "failed", <<>>),
                                            node  |-> Top(workers[j].stack).path])]
  /\ workers' = [workers EXCEPT ![j].pc = "put_last_failed"]
  /\ UNCHANGED << tree, failed, crawlVars, script, files, continue_from, ppc, ai,
                  state_progress, prior, pfaults,
                  regs, handled >>

\* progress_queue.put((state_name, f"last:{url}")) after "failed" (ms.py 180,
\* 186, 234, 240; multi_scraper.py 57, 63, 95, 101).
PutLastFailed(j) ==
  /\ workers[j].pc = "put_last_failed"
  /\ LET e == Event(j, "last", LastStatus(Url(j, Top(workers[j].stack).path)))
     IN /\ progress_queue' = Append(progress_queue, e)
        /\ sent' = [sent EXCEPT ![j] =
                     Append(@, [event |-> e, node |-> Top(workers[j].stack).path])]
  /\ workers' = [workers EXCEPT ![j].pc = "log_failed"]
  /\ UNCHANGED << tree, failed, crawlVars, script, files, continue_from, ppc, ai,
                  state_progress, prior, pfaults,
                  regs, handled >>

\* The URL goes to FAILED_FAILPATH and the call returns (ms.py 181-182, 187-188,
\* 235-236, 241-242; multi_scraper.py 58-59, 64-65, 96-97, 102-103).
LogFailed(j) ==
  /\ workers[j].pc = "log_failed"
  /\ failed' = Append(failed, [job |-> j, p |-> Top(workers[j].stack).path])
  /\ workers' = [workers EXCEPT ![j] = HelperReturned(workers[j].stack)]
  /\ UNCHANGED << tree, crawlVars, script, files, continue_from, progress_queue,
                  ppc, ai, state_progress, prior, pfaults,
                  regs, sent, handled >>

\* Variant: the loop goes on only while the queue has events.
IsAliveNever(j) == FALSE

\* Variant: `thread.is_alive` without the call, a method object, is truthy.
IsAliveAlways(j) == TRUE

\* thread.is_alive() (ms.py 305, multi_scraper.py 153).
IsAlive(j) == workers[j].pc \notin {"idle", "done", "dead"}

\* One thread.is_alive() of `any(thread.is_alive() for thread in threads)`:
\* the first live thread makes the condition true (ms.py 305).
AnyAlive ==
  /\ ppc = "alive"
  /\ IF IsAlive(ai)
       THEN /\ ppc' = "get"
            /\ ai' = 1
       ELSE IF ai < MaxJobs
              THEN /\ ai' = ai + 1
                   /\ UNCHANGED ppc
              ELSE /\ ppc' = "empty"
                   /\ ai' = 1
  /\ UNCHANGED << tree, failed, crawlVars, script, files, continue_from, workers,
                  progress_queue, state_progress, prior, pfaults,
                  regs, sent, handled >>

\* `or not progress_queue.empty()`: the loop ends when the queue is empty
\* (ms.py 305, 330).
QueueEmpty ==
  /\ ppc = "empty"
  /\ ppc' = IF progress_queue = <<>> THEN "exited" ELSE "get"
  /\ UNCHANGED << tree, failed, crawlVars, script, files, continue_from, workers,
                  progress_queue, ai, state_progress, prior, pfaults,
                  regs, sent, handled >>

\* num_lines(state_name, regs) read while the worker appends: the file as a
\* reader finds it holds the lines of the earlier run and what has left the
\* writer's buffer, any part of the worker's writes (ms.py 86-100).
NumLinesRead(j) ==
  LET d == files[j].data
  IN { NumLines(SubSeq(d, 1, k)) : k \in (2 * prior[j])..Len(d) }

\* The counters after an event (ms.py 311-318, multi_scraper.py 159-164).
Update(sp, e, lines) ==
  IF e.status = "completed" THEN [sp EXCEPT !.completed = @ + 1]
  ELSE IF e.status = "completed_batch" THEN [sp EXCEPT !.completed = @ + lines]
  ELSE IF e.status = "failed" THEN [sp EXCEPT !.failed = @ + 1]
  ELSE [sp EXCEPT !.last = Some(LastSeen(e.url))]

\* Variant: the event put last is returned first.
ProgressQueueGetNewest(q) == [item |-> q[Len(q)], rest |-> SubSeq(q, 1, Len(q) - 1)]

\* get() of the non-empty progress_queue, a queue.Queue: the event put first,
\* removed from the queue (ms.py 17, 308; multi_scraper.py 16, 156).
ProgressQueueGet(q) == [item |-> Head(q), rest |-> Tail(q)]

\* progress_queue.get(timeout=1) returns an event and the counters are updated
\* (ms.py 308-324, multi_scraper.py 156-170).
ProgressGet ==
  /\ ppc = "get"
  /\ progress_queue # <<>>
  /\ LET e == ProgressQueueGet(progress_queue).item
     IN /\ \E lines \in (IF e.status = "completed_batch" THEN NumLinesRead(e.job) ELSE {0}) :
             state_progress' = [state_progress EXCEPT ![e.job] = Update(@, e, lines)]
        /\ handled' = [handled EXCEPT ![e.job] = Append(@, e)]
  /\ progress_queue' = ProgressQueueGet(progress_queue).rest
  /\ ppc' = "alive"
  /\ UNCHANGED << tree, failed, crawlVars, script, files, continue_from, workers, ai,
                  prior, pfaults,
                  regs, sent >>

\* progress_queue.get(timeout=1) raises queue.Empty after a second without an
\* event: continue (ms.py 326-328, multi_scraper.py 172-174).
ProgressTimeout ==
  /\ ppc = "get"
  /\ progress_queue = <<>>
  /\ ppc' = "alive"
  /\ UNCHANGED << tree, failed, crawlVars, script, files, continue_from, workers,
                  progress_queue, ai, state_progress, prior, pfaults,
                  regs, sent, handled >>

\* The bars are closed, every thread is joined and the function returns
\* (ms.py 331-336, multi_scraper.py 177-182).
JoinAll ==
  /\ ppc = "exited"
  /\ \A j \in Jobs : ~IsAlive(j)
  /\ ppc' = "returned"
  /\ UNCHANGED << tree, failed, crawlVars, script, files, continue_from, workers,
                  progress_queue, ai, state_progress, prior, pfaults,
                  regs, sent, handled >>

NextAgg ==
  \/ StartWorker
  \/ AnyAlive
  \/ QueueEmpty
  \/ ProgressGet
  \/ ProgressTimeout
  \/ JoinAll
  \/ \E j \in Jobs :
       \/ WorkerBegin(j)
       \/ HelperFetch(j)
       \/ PutBatch(j)
       \/ LeafGet(j)
       \/ LeafWriteJson(j)
       \/ LeafWriteNl(j)
       \/ PutCompleted(j)
       \/ PutLast(j)
       \/ PutFailed(j)
       \/ PutLastFailed(j)
       \/ LogFailed(j)

SpecAgg == InitAgg /\ [][NextAgg]_vars

\* The steps of the main thread in process_states_in_parallel.
MainStep ==
  \/ StartWorker
  \/ AnyAlive
  \/ QueueEmpty
  \/ ProgressGet
  \/ ProgressTimeout
  \/ JoinAll

\* The main thread is never blocked for good: nothing in the loop waits for
\* longer than the timeout of get (ms.py 308), and the thread is scheduled
\* again whenever it can take a step. Nothing is assumed of the workers, whose
\* fetches may hang.
SpecAggFair == InitAgg /\ [][NextAgg]_vars /\ WF_vars(MainStep)

\* ------------------------------------------------------------------ observations
\* Positions of the complete record lines of f that hold exactly the record of
\* node p: one JSON text between two line breaks (or the start of the file).
RecordAt(p, f) ==
  { i \in 1..(Len(f) - 1) :
      /\ f[i] = Json(p)
      /\ f[i + 1] = NL
      /\ (i = 1 \/ f[i - 1] = NL) }

RecordCount(p, f) == Cardinality(RecordAt(p, f))

\* Every line of f is a complete record line.
WellFormed(f) ==
  /\ Len(f) % 2 = 0
  /\ \A i \in 1..Len(f) : (f[i].k = "json") <=> (i % 2 = 1)

\* What this invocation has written to the output file so far.
Appended == Written

\* The lines this invocation has added to the failure log.
FailedNow == SubSeq(failed, failBase + 1, Len(failed))

Occurrences(x, s) == Cardinality({ i \in 1..Len(s) : s[i] = x })

RECURSIVE FileOf(_)
\* The log holding exactly the records of the nodes of ps, in order.
FileOf(ps) == IF ps = <<>> THEN <<>> ELSE <<Json(Head(ps)), NL>> \o FileOf(Tail(ps))

Ended == mpc \in {"returned", "crashed"}
Running == mpc \in {"read_ckpt", "open", "root_fetch", "enqueue", "spawn", "join", "crawl"}
NoFaultNow == statusFails = <<>> /\ excs = <<>> /\ ~rootFail

\* Every call of scrape_branch/helper that is active in thread t.
Frames(t) == { thr[t].stack[k] : k \in 1..Len(thr[t].stack) }

\* ------------------------------------------------------------------ properties
\* C1: multi-worker resume. When an invocation of ms2 with resume and at least
\* two threads returns, after an earlier invocation stopped between two appends
\* (the file holds complete record lines only) and with every fetch of every
\* invocation successful, every leaf of the tree is recorded in the output
\* file exactly once.
C1_ResumeExactlyOnce ==
  ( /\ mpc = "returned"
    /\ prog = "ms2"
    /\ resume
    /\ nthreads >= 2
    /\ run >= 2
    /\ Faults = 0
    /\ WellFormed(startFile)
    /\ IsBranch(tree, <<>>) )
  => \A l \in Leaves(tree) : RecordCount(l, outfile) = 1

\* C2: single-worker resume idempotence. When scraper2 without --overwrite
\* returns from a run whose fetches all succeeded and that started on the first
\* k complete records of the uninterrupted log (k >= 0), the file holds exactly
\* the uninterrupted log.
C2_ResumeIdempotent ==
  ( /\ mpc = "returned"
    /\ prog = "scraper2"
    /\ resume
    /\ NoFaultNow
    /\ \E k \in 0..Len(Dfs(tree, <<>>)) : startFile = FileOf(SubSeq(Dfs(tree, <<>>), 1, k)) )
  => outfile = FileOf(Dfs(tree, <<>>))

\* The same statement for the trees whose root page is a branch.
C2_BranchRootResume ==
  IsBranch(tree, <<>>) => C2_ResumeIdempotent

\* C3 as stated: a leaf whose path equals the resume cursor is not fetched at
\* all by the resumed run.
C3_ZeroFetchesOfCursorLeaf ==
  ( /\ Running \/ Ended
    /\ Truthy(cursor)
    /\ cursor.p \in Leaves(tree) )
  => fetches[cursor.p] = 0

\* The records of A2, B0, B1 and nothing else, A2 anywhere among them.
ScenarioAppends ==
  /\ WellFormed(Appended)
  /\ Len(Appended) = 6
  /\ \A l \in { <<0,2>>, <<1,0>>, <<1,1>> } : RecordCount(l, Appended) = 1
  /\ \E i, j \in 1..Len(Appended) :
       i < j /\ Appended[i] = Json(<<1,0>>) /\ Appended[j] = Json(<<1,1>>)

\* The tree [A:[A0,A1,A2], B:[B0,B1]] resumed from checkpoint [0,1] on the log
\* A0, A1, every fetch successful, has returned.
ScenarioResumed ==
  /\ mpc = "returned"
  /\ tree = TreeAB
  /\ cursor = Some(<<0,1>>)
  /\ startFile = FileOf(<< <<0,0>>, <<0,1>> >>)
  /\ NoFaultNow

\* C3 (amended): in a resumed run (ms2 or scraper2) whose cursor is the path of
\* a leaf, that leaf is fetched at most once (the fetch that classifies it, in
\* scrape_branch/helper), never by process_code_leaf, and no record of it is
\* appended; when the run returns without a failed fetch it was fetched exactly
\* once. Resuming [A:[A0,A1,A2], B:[B0,B1]] from [0,1] appends exactly A2, B0,
\* B1 (B0 before B1), with no fetch of A0 and one fetch of A1.
C3_CursorLeafClassifiedOnly ==
  /\ ( /\ Running \/ Ended
       /\ Truthy(cursor)
       /\ cursor.p \in Leaves(tree) )
     => /\ fetches[cursor.p] <= 1
        /\ \A i \in 1..Len(Appended) : Appended[i] # Json(cursor.p)
        /\ \A t \in Threads :
             thr[t].pc \in {"leaf_fetch", "lock", "write_json", "write_nl"}
               => Top(thr[t].stack).path # cursor.p
        /\ (mpc = "returned" /\ NoFaultNow) => fetches[cursor.p] = 1
  /\ ScenarioResumed
     => /\ ScenarioAppends
        /\ fetches[<<0,0>>] = 0
        /\ fetches[<<0,1>>] = 1

\* C3 witness: the scenario run of ms2 with two workers has returned, having
\* classified A1 and appended A2, B0, B1.
C3_Witness ==
  /\ ScenarioResumed
  /\ prog = "ms2"
  /\ nthreads = 2
  /\ fetches[<<0,1>>] = 1
  /\ ScenarioAppends

\* The nodes a resume from cursor c passes over: below a strict prefix p of c,
\* the children with index < c[len(p)] and everything under them.
SkippedBy(c) ==
  { n \in tree.nodes :
      \E k \in 0..(Len(c) - 1) :
        /\ Len(n) > k
        /\ SubSeq(n, 1, k) = SubSeq(c, 1, k)
        /\ n[k + 1] < c[k + 1] }

\* C4: prefix-skip. Whenever a call for a branch at path p is active with a
\* cursor c of which p is a strict prefix, no child of p with index below
\* c[len(p)] and no node under such a child has been fetched; and over the
\* whole resumed run (the root included) none of the nodes the cursor passes
\* over is ever fetched.
C4_PrefixSkip ==
  /\ \A t \in Threads : \A f \in Frames(t) :
       ( /\ Truthy(f.cf)
         /\ IsPrefix(f.path, f.cf.p)
         /\ Len(f.path) < Len(f.cf.p) )
       => \A n \in tree.nodes :
            ( /\ Len(n) > Len(f.path)
              /\ IsPrefix(f.path, n)
              /\ n[Len(f.path) + 1] < f.cf.p[Len(f.path) + 1] )
            => fetches[n] = 0
  /\ ((Running \/ Ended) /\ Truthy(cursor))
     => \A n \in SkippedBy(cursor.p) : fetches[n] = 0

\* C4 witness: a resumed run has returned after crawling past a cursor that
\* passes over at least one node, and the cursor's own branch was visited.
C4_Witness ==
  /\ mpc = "returned"
  /\ Truthy(cursor)
  /\ NoFaultNow
  /\ SkippedBy(cursor.p) # {}
  /\ \E p \in tree.branches : p # <<>> /\ IsPrefix(p, cursor.p) /\ fetches[p] = 1
  /\ \A n \in SkippedBy(cursor.p) : fetches[n] = 0

HasCursor(t) == \E f \in Frames(t) : f.cf # None

\* C5: sibling reset. In every thread, for every active call and the call it
\* made for child i: i > start_idx gives the child the cursor None and
\* i = start_idx gives it the caller's cursor unchanged (for ms2's outermost
\* calls the caller is collect_codes_for_state's loop over the top level);
\* every active call carrying a cursor has a path that is a prefix of it, and
\* at most one thread carries a cursor, not while a queued item still does.
C5_SiblingReset ==
  /\ \A t \in Threads :
       LET stk == thr[t].stack
       IN /\ \A k \in 1..(Len(stk) - 1) :
               LET i == stk[k + 1].path[Len(stk[k + 1].path)]
               IN /\ stk[k + 1].path = stk[k].path \o <<i>>
                  /\ i >= stk[k].start
                  /\ i > stk[k].start => stk[k + 1].cf = None
                  /\ i = stk[k].start => stk[k + 1].cf = stk[k].cf
          /\ (prog = "ms2" /\ stk # <<>>) =>
               LET i == stk[1].path[1]
                   top == IF Truthy(cursor) THEN cursor.p[1] ELSE 0
               IN /\ i > top => stk[1].cf = None
                  /\ i = top => stk[1].cf = cursor
          /\ \A f \in Frames(t) : f.cf # None => IsPrefix(f.path, f.cf.p)
  /\ \A t, u \in Threads : (HasCursor(t) /\ HasCursor(u)) => t = u
  /\ \A t \in Threads : \A k \in 1..Len(queue) : ~(HasCursor(t) /\ queue[k].cf # None)

\* C5 witness: below a branch entered with a cursor, the call for a child
\* after start_idx is active and carries None.
C5_Witness ==
  \E t \in Threads :
    LET stk == thr[t].stack
    IN \E k \in 1..(Len(stk) - 1) :
         /\ Truthy(stk[k].cf)
         /\ stk[k].start > 0
         /\ stk[k + 1].path[Len(stk[k + 1].path)] > stk[k].start
         /\ stk[k + 1].cf = None

\* A cold-start run of ms2 (no cursor, the file opened with "w") over a tree
\* with a top-level listing has returned; the root fetch succeeded.
ColdRunReturned ==
  /\ mpc = "returned"
  /\ prog = "ms2"
  /\ cursor = None
  /\ IsBranch(tree, <<>>)
  /\ ~rootFail

\* C6: failure isolation. When a cold-start run of ms2 returns in which exactly
\* one fetch answered a non-success status, that of a leaf (in scrape_branch or
\* in process_code_leaf), and nothing raised, every other leaf has exactly one
\* record in the output, the failing leaf has none, and the failing leaf's URL
\* is exactly once among the lines the run added to the failure log.
C6_FailureIsolation ==
  ( /\ ColdRunReturned
    /\ excs = <<>>
    /\ Len(statusFails) = 1
    /\ statusFails[1] \in Leaves(tree) )
  => /\ \A l \in Leaves(tree) \ {statusFails[1]} : RecordCount(l, outfile) = 1
     /\ RecordCount(statusFails[1], outfile) = 0
     /\ Occurrences(statusFails[1], FailedNow) = 1
     /\ Len(FailedNow) = 1

\* C6 witness: two workers, the leaf A1 (depth 2) failed in process_code_leaf or
\* in scrape_branch, the run returned with the four other leaves recorded.
C6_Witness ==
  /\ ColdRunReturned
  /\ tree = TreeAB
  /\ nthreads = 2
  /\ excs = <<>>
  /\ statusFails = << <<0,1>> >>
  /\ FailedNow = << <<0,1>> >>
  /\ \A l \in Leaves(tree) \ { <<0,1>> } : RecordCount(l, outfile) = 1

\* C7: local recovery of every failure kind. When a cold-start run of ms2
\* returns in which the only thing that went wrong is one exception (a
\* transport exception of requests.get, or a missing marker in the extraction)
\* at a node below the root, that node's URL is in the failure log and every
\* leaf outside that node's subtree is recorded.
C7_LocalRecovery ==
  ( /\ ColdRunReturned
    /\ statusFails = <<>>
    /\ Len(excs) = 1
    /\ excs[1].p # <<>> )
  => /\ Occurrences(excs[1].p, FailedNow) = 1
     /\ \A l \in Leaves(tree) : ~IsPrefix(excs[1].p, l) => RecordCount(l, outfile) = 1

\* C8: collect_codes_for_state of ms2 returns (after the joins) only when the
\* work queue is empty, whatever failed.
C8_ReturnsWithEmptyQueue ==
  (prog = "ms2" /\ mpc = "returned") => queue = <<>>

\* C9: work distribution. Right after the enqueue loop, with startBranch =
\* checkpoint[0] when a checkpoint is present and 0 otherwise, the queue holds
\* exactly one item per top-level index i >= startBranch, in increasing i, with
\* path [i]; the item at startBranch carries the checkpoint and every later
\* item carries None.
C9_WorkDistribution ==
  (mpc = "spawn" /\ started = 0) =>
    LET n == NumLinks(tree, <<>>)
        startBranch == IF cursor.some THEN cursor.p[1] ELSE 0
    IN /\ Len(queue) = (IF n > startBranch THEN n - startBranch ELSE 0)
       /\ \A k \in 1..Len(queue) :
            /\ queue[k].path = <<startBranch + k - 1>>
            /\ queue[k].cf = (IF k = 1 THEN cursor ELSE None)

\* C9 witness: a resume from a checkpoint in the second of three top-level
\* branches has enqueued the second item with the checkpoint and the third
\* with None.
C9_Witness ==
  /\ mpc = "spawn"
  /\ started = 0
  /\ NumLinks(tree, <<>>) = 3
  /\ cursor.some
  /\ cursor.p[1] = 1
  /\ Len(queue) = 2
  /\ queue[1] = [path |-> <<1>>, cf |-> cursor]
  /\ queue[2] = [path |-> <<2>>, cf |-> None]

\* C10: root-is-leaf. When a run of ms2 on a tree whose root page has no
\* children listing returns and every fetch succeeded, the root leaf has a
\* record in the output file.
C10_RootLeafRecorded ==
  ( /\ prog = "ms2"
    /\ mpc = "returned"
    /\ ~IsBranch(tree, <<>>)
    /\ NoFaultNow )
  => RecordCount(<<>>, outfile) >= 1

\* C11 as stated: across any invocation, in any mode and whatever the
\* checkpoint reader returned, the content the output file had before the
\* invocation is still there, unchanged and in the same order, at every later
\* point of the invocation.
C11_AppendOnlyAnyMode ==
  (Running \/ Ended) => IsPrefix(startFile, outfile)

\* C11 (amended): in an invocation in resume mode whose checkpoint reader
\* returned a cursor, the content the file had before the invocation stays in
\* the file as its prefix; and in every invocation each step of the program
\* that changes the file appends to it, except open() with mode "w".
C11_AppendOnlyWhenResumed ==
  /\ [](((Running \/ Ended) /\ mpc # "read_ckpt" /\ resume /\ cursor # None)
          => IsPrefix(startFile, outfile))
  /\ [][(outfile' # outfile /\ mpc' # "interrupted")
          => (IsPrefix(outfile, outfile') \/ (mpc = "open" /\ mode = "w"))]_vars

\* C11 witness: a resumed run with a cursor has returned after appending to a
\* file that held records, which are still its prefix.
C11_Witness ==
  /\ mpc = "returned"
  /\ resume
  /\ cursor # None
  /\ startFile # <<>>
  /\ Len(outfile) > Len(startFile)
  /\ IsPrefix(startFile, outfile)

\* C12: root discovery failure. When the root fetch of ms2 answered a
\* non-success status, collect_codes_for_state has returned with no work item
\* enqueued or obtained, no worker thread started, nothing appended to the
\* output file, and one fetch of the root URL and none of any other.
C12_RootFailureEndsJob ==
  rootFail =>
    /\ prog = "ms2"
    /\ mpc = "returned"
    /\ queue = <<>>
    /\ started = 0
    /\ \A t \in Threads : thr[t] = IdleThread
    /\ \A n \in DOMAIN gets : gets[n] = 0
    /\ Appended = <<>>
    /\ fetches[<<>>] = 1
    /\ \A n \in tree.nodes \ {<<>>} : fetches[n] = 0

\* C12 witness: the root fetch of a resumed run failed; the records of the
\* earlier run are still the whole file.
C12_Witness ==
  /\ rootFail
  /\ mpc = "returned"
  /\ resume
  /\ cursor # None
  /\ outfile = startFile
  /\ outfile # <<>>

\* C13: append atomicity. In every state of a run of ms2, what the run has
\* written is a sequence of whole record lines, or such a sequence followed by
\* the JSON text of the leaf the lock holder is appending; and a thread is
\* between the two writes of an append, or about to make the first, only while
\* it holds the lock.
C13_AppendAtomicity ==
  (prog = "ms2" /\ (Running \/ Ended)) =>
    /\ \/ WellFormed(Appended)
       \/ /\ Len(Appended) % 2 = 1
          /\ WellFormed(SubSeq(Appended, 1, Len(Appended) - 1))
          /\ lock # 0
          /\ thr[lock].pc = "write_nl"
          /\ Appended[Len(Appended)] = Json(Top(thr[lock].stack).path)
    /\ \A t \in Threads : thr[t].pc \in {"write_json", "write_nl"} => lock = t

\* C13 witness: one worker holds the lock between its two writes, after a whole
\* line of the run, while the other worker waits for the lock.
C13_Witness ==
  /\ prog = "ms2"
  /\ lock # 0
  /\ thr[lock].pc = "write_nl"
  /\ Len(Appended) >= 3
  /\ \E t \in Threads : t # lock /\ thr[t].pc = "lock"

\* C14: failure recorder mutual exclusion. A worker of ms2 is at the append of
\* a failed URL to the failure log (in scrape_branch or in process_code_leaf)
\* only while it holds the lock that guards the record appends.
C14_FailureLogUnderLock ==
  \A t \in Threads : (prog = "ms2" /\ thr[t].pc = "log_fail") => lock = t

\* The work items the enqueue loop has put: the top-level nodes from the start
\* branch on.
EnqueuedNodes ==
  { n \in DOMAIN gets : n[1] >= (IF Truthy(cursor) THEN cursor.p[1] ELSE 0) }

\* C15: work item exclusivity. No work item is obtained twice; a worker that
\* tests or takes from the queue has no traversal in progress; and when ms2
\* returns after a successful root fetch of a branch root, every enqueued work
\* item has been obtained exactly once.
C15_WorkItemExclusivity ==
  /\ \A n \in DOMAIN gets : gets[n] <= 1
  /\ \A t \in Threads : thr[t].pc \in {"check", "get", "done"} => thr[t].stack = <<>>
  /\ (prog = "ms2" /\ mpc = "returned" /\ ~rootFail /\ IsBranch(tree, <<>>))
       => \A n \in EnqueuedNodes : gets[n] = 1

\* The same statement for the runs in which nothing raised.
C15_ExclusiveUnlessRaised ==
  excs = <<>> => C15_WorkItemExclusivity

\* C17: corrupt checkpoint. When a run in resume mode starts on a file whose
\* last line is a cut JSON text, the checkpoint reader gives the cursor None
\* and the job goes on: collect_codes_for_state is not left by an exception.
C17_CorruptTailColdStart ==
  ( /\ Running \/ Ended
    /\ mpc # "read_ckpt"
    /\ resume
    /\ startFile # <<>>
    /\ startFile[Len(startFile)].k = "part" )
  => (mpc # "crashed" /\ cursor = None)

\* p comes before q in lexicographic order.
LexLess(p, q) ==
  \E k \in 1..Len(q) :
    /\ k <= Len(p) + 1
    /\ SubSeq(p, 1, k - 1) = SubSeq(q, 1, k - 1)
    /\ (k = Len(p) + 1 \/ p[k] < q[k])

\* C18: total-order recoverability. In a single-worker run (scraper2, or ms2
\* with one thread) the lex_paths of the records the run has appended are
\* strictly increasing in lexicographic order; and a cold-start run that
\* returns without a failed fetch leaves exactly the records of the leaves in
\* pre-order.
C18_TotalOrder ==
  ((Running \/ Ended) /\ nthreads = 1) =>
    /\ \A i, j \in 1..Len(Appended) :
         (i < j /\ Appended[i].k = "json" /\ Appended[j].k = "json")
           => LexLess(Appended[i].p, Appended[j].p)
    /\ ( /\ mpc = "returned"
         /\ NoFaultNow
         /\ cursor = None
         /\ (prog = "scraper2" \/ IsBranch(tree, <<>>)) )
       => outfile = FileOf(Dfs(tree, <<>>))

\* C18 witness: a single-worker run of ms2 has returned with the records of
\* three leaves of different depths under two top-level nodes, in pre-order.
C18_Witness ==
  /\ mpc = "returned"
  /\ prog = "ms2"
  /\ nthreads = 1
  /\ tree = TreeDeep
  /\ outfile = FileOf(<< <<0>>, <<1,0>>, <<1,1,0>> >>)

\* k >= 1 complete record lines: a JSON text and a line break, k times.
CompleteLines(f) ==
  /\ Len(f) >= 2
  /\ Len(f) % 2 = 0
  /\ \A i \in 1..Len(f) :
       IF i % 2 = 1 THEN f[i].k \in {"json", "json_url"} ELSE f[i] = NL

\* C16: checkpoint reader result. Once get_last_lex_path has run: on a missing
\* or empty file it returned None; on a file of k >= 1 complete record lines
\* it returned the lex_path of the last line, None when that record has no
\* lex_path field; in both cases without raising.
C16_CheckpointReaderResult ==
  (mpc # "read_ckpt" /\ resume) =>
    /\ startFile = <<>> => (~ReaderRaised /\ cursor = None)
    /\ CompleteLines(startFile) =>
         LET last == startFile[Len(startFile) - 1]
         IN /\ ~ReaderRaised
            /\ cursor = (IF last.k = "json" THEN Some(last.p) ELSE None)

\* C16 witness: the reader returned the lex_path of the second of two lines.
C16_Witness ==
  /\ mpc = "open"
  /\ startFile = << Json(<<0,0>>), NL, Json(<<1,1>>), NL >>
  /\ cursor = Some(<<1,1>>)

\* C19: the progress aggregator drains everything. Once the consumer loop of
\* process_states_in_parallel has been left, and ever after, every worker
\* thread has ended and the progress queue is empty: each event put was
\* consumed by the loop.
C19_LoopExitDrained ==
  (ppc \in {"exited", "returned"}) =>
    /\ \A j \in Jobs : workers[j].pc \in {"done", "dead"}
    /\ progress_queue = <<>>

\* C19 witness: the loop of multi_scraper.py was left after both jobs recorded
\* their two leaves and every one of their events was consumed.
C19_Witness ==
  /\ ppc = "exited"
  /\ script = "multi_scraper"
  /\ progress_queue = <<>>
  /\ \A j \in Jobs :
       /\ workers[j].pc = "done"
       /\ state_progress[j].completed = 2
       /\ state_progress[j].last = Some(LastSeen(LastStatus(Url(j, <<1,0>>))))

\* C20: BatchCompleted count. In every step in which the aggregator handles the
\* "completed_batch" event of a job, that job's completed counter grows by
\* exactly the number of records the earlier run left in the job's file.
C20_BatchCountIsPriorCount ==
  [][\A j \in Jobs :
       ( /\ ppc = "get"
         /\ progress_queue # <<>>
         /\ Head(progress_queue) = Event(j, "completed_batch", <<>>)
         /\ ppc' = "alive" )
       => state_progress'[j].completed = state_progress[j].completed + prior[j]]_vars

\* The same statement for the handlings that come before the worker's next
\* write to the file.
C20_BatchCountBeforeNextWrite ==
  [][\A j \in Jobs :
       ( /\ ppc = "get"
         /\ progress_queue # <<>>
         /\ Head(progress_queue) = Event(j, "completed_batch", <<>>)
         /\ ppc' = "alive"
         /\ Len(files[j].data) = 2 * prior[j] )
       => state_progress'[j].completed = state_progress[j].completed + prior[j]]_vars

\* C21: per-branch order under concurrency. In every state of a run of ms2,
\* with any number of workers and any interleaving of their appends, the
\* records the run has appended whose lex_path starts with the same top-level
\* index appear in the file in strictly increasing lexicographic order.
C21_PerBranchOrder ==
  (prog = "ms2" /\ (Running \/ Ended)) =>
    \A i, j \in 1..Len(Appended) :
      ( /\ i < j
        /\ Appended[i].k = "json"
        /\ Appended[j].k = "json"
        /\ Appended[i].p # <<>>
        /\ Appended[j].p # <<>>
        /\ Appended[i].p[1] = Appended[j].p[1] )
      => LexLess(Appended[i].p, Appended[j].p)

\* C21 witness: two workers have recorded the five leaves of the two branches,
\* a record of B between two records of A.
C21_Witness ==
  /\ prog = "ms2"
  /\ mpc = "returned"
  /\ nthreads = 2
  /\ tree = TreeAB
  /\ \A l \in Leaves(tree) : RecordCount(l, Appended) = 1
  /\ \E i, j, k \in 1..Len(Appended) :
       /\ i < j
       /\ j < k
       /\ Appended[i] = Json(<<0,0>>)
       /\ Appended[j] = Json(<<1,0>>)
       /\ Appended[k] = Json(<<0,2>>)

\* C22: disjoint address ranges. In every state of a run of ms2: every call
\* active in a worker has a path under the one-element path of the work item
\* the worker obtained, and the record a worker has just written is the one of
\* its innermost call; no two workers hold work items with the same top-level
\* index and no work item is obtained twice; no lex_path is appended twice by
\* the run.
C22_DisjointAddressRanges ==
  (prog = "ms2" /\ (Running \/ Ended)) =>
    /\ \A t \in Threads :
         thr[t].stack # <<>> =>
           /\ Len(thr[t].stack[1].path) = 1
           /\ \A f \in Frames(t) : IsPrefix(thr[t].stack[1].path, f.path)
           /\ thr[t].pc = "write_nl"
                => Appended[Len(Appended)] = Json(Top(thr[t].stack).path)
    /\ \A t, u \in Threads :
         (t # u /\ thr[t].stack # <<>> /\ thr[u].stack # <<>>)
           => thr[t].stack[1].path # thr[u].stack[1].path
    /\ \A n \in DOMAIN gets : gets[n] <= 1
    /\ \A l \in tree.nodes : Occurrences(Json(l), Appended) <= 1

\* C22 witness: the worker of branch 0 is between the two writes of its second
\* record while the worker of branch 1, which has recorded a leaf, is in a call
\* below its work item.
C22_Witness ==
  /\ prog = "ms2"
  /\ nthreads = 2
  /\ \E t, u \in Threads :
       /\ thr[t].pc = "write_nl"
       /\ Len(thr[t].stack) = 2
       /\ thr[t].stack[1].path = <<0>>
       /\ Len(thr[u].stack) = 2
       /\ thr[u].stack[1].path = <<1>>
       /\ Occurrences(Json(<<0,0>>), Appended) = 1
       /\ Occurrences(Json(<<1,0>>), Appended) = 1
       /\ Appended[Len(Appended)] = Json(<<0,1>>)

\* C23 as stated: in every job of ms2 the checkpoint reader reads the output
\* file exactly once.
C23_ReadExactlyOncePerJob ==
  (prog = "ms2" /\ (Running \/ Ended) /\ mpc # "read_ckpt") => reads = 1

\* C23 (amended): in a job of ms2 with --resume the checkpoint reader is called
\* exactly once, and without --resume it is not called at all and the cursor is
\* None; the call comes before the root fetch and before any worker thread is
\* started; after it, the cursor is never changed and the reader is never
\* called again in the invocation.
C23_CheckpointReadOnce ==
  /\ []((prog = "ms2" /\ (Running \/ Ended)) =>
          /\ reads <= 1
          /\ (mpc # "read_ckpt" /\ resume) => reads = 1
          /\ ~resume => (reads = 0 /\ cursor = None)
          /\ mpc = "read_ckpt" =>
               /\ reads = 0
               /\ started = 0
               /\ \A n \in tree.nodes : fetches[n] = 0
               /\ \A t \in Threads : thr[t] = IdleThread)
  /\ [][(prog = "ms2" /\ mpc # "read_ckpt" /\ mpc' \notin {"read_ckpt", "interrupted"})
          => (cursor' = cursor /\ reads' = reads)]_vars

\* C23 witness: a resumed run of ms2 with two workers has returned after one
\* call of the reader, which gave a cursor, and has appended records.
C23_Witness ==
  /\ prog = "ms2"
  /\ mpc = "returned"
  /\ resume
  /\ reads = 1
  /\ cursor # None
  /\ started = 2
  /\ Appended # <<>>

\* The records in the file of job j.
JobRecords(j) ==
  Cardinality({ i \in 1..Len(files[j].data) : files[j].data[i].k = "json_url" })

\* The lines of the failure log written by the worker of job j.
JobFailures(j) ==
  Cardinality({ i \in 1..Len(failed) : failed[i].job = j })

\* C24: counter accuracy. In every state of process_states_in_parallel of
\* multi_scraper.py each job's completed counter is at most the number of
\* records appended to the job's file and its failed counter is at most the
\* number of the job's URLs in the failure log; once the loop has been left,
\* completed equals the number of records the job appended and failed equals
\* the number of failure-log lines the job wrote.
C24_CounterAccuracy ==
  script = "multi_scraper" =>
    \A j \in Jobs :
      /\ state_progress[j].completed <= JobRecords(j)
      /\ state_progress[j].failed <= JobFailures(j)
      /\ ppc \in {"exited", "returned"} =>
           /\ state_progress[j].completed = JobRecords(j)
           /\ state_progress[j].failed = JobFailures(j)

\* The same statement without the bound of the failed counter while the loop
\* runs.
C24_CountersAtExit ==
  script = "multi_scraper" =>
    \A j \in Jobs :
      /\ state_progress[j].completed <= JobRecords(j)
      /\ ppc \in {"exited", "returned"} =>
           /\ state_progress[j].completed = JobRecords(j)
           /\ state_progress[j].failed = JobFailures(j)

\* The worker of job j has logged the failure of a fetch of its root URL.
RootFailed(j) == \E i \in 1..Len(failed) : failed[i] = [job |-> j, p |-> <<>>]

\* The file holding the records of every leaf of the tree, in pre-order.
FullFile ==
  LET d == Dfs(tree, <<>>)
  IN [i \in 1..(2 * Len(d)) |-> IF i % 2 = 1 THEN JsonUrl(d[(i + 1) \div 2]) ELSE NL]

\* The "failed" events of job j sent so far: those counted and those queued.
FailedEvents(j) ==
  state_progress[j].failed
    + Cardinality({ i \in 1..Len(progress_queue) :
                      progress_queue[i].job = j /\ progress_queue[i].status = "failed" })

\* The checkpoint read or a fetch of job k itself has failed.
OwnFault(k) == workers[k].pc \in {"dead", "put_failed"} \/ FailedEvents(k) > 0

\* C25: job isolation. In process_states_in_parallel of multi_scraper.py and
\* ms.py, once the worker of a job has logged the failure of its root fetch:
\* that worker has ended, having sent one failed event, written one line to the
\* failure log and appended no record; and every other job, unless its own
\* checkpoint read or one of its own fetches failed, has written nothing to
\* the failure log, holds in its file the record of every leaf once its worker
\* has ended, and has ended when the function has returned.
C25_JobIsolation ==
  \A j \in Jobs :
    RootFailed(j) =>
      /\ workers[j].pc = "done"
      /\ FailedEvents(j) = 1
      /\ JobFailures(j) = 1
      /\ Len(files[j].data) = 2 * prior[j]
      /\ \A k \in Jobs \ {j} :
           ~OwnFault(k) =>
             /\ JobFailures(k) = 0
             /\ workers[k].pc = "done" => files[k].data = FullFile
             /\ ppc = "returned" => workers[k].pc = "done"

\* C25 witness: the function has returned; the root fetch of job 1 failed and
\* was counted once, and job 2 recorded its two leaves.
C25_Witness ==
  /\ ppc = "returned"
  /\ tree = TreeSmall
  /\ RootFailed(1)
  /\ state_progress[1] = [completed |-> 0, failed |-> 1,
                          last |-> Some(LastSeen(LastStatus(Url(1, <<>>))))]
  /\ workers[2].pc = "done"
  /\ files[2].data = FullFile
  /\ state_progress[2].completed = 2
  /\ state_progress[2].failed = 0

\* C26: aggregator termination. Under fair scheduling of the main thread, if
\* every worker thread eventually finishes then the consumer loop of
\* process_states_in_parallel is eventually left and the function returns; and
\* the consumer never stays in get: each get returns an event or times out and
\* the loop condition is evaluated again.
C26_AggregatorTerminates ==
  /\ (\A j \in Jobs : <>[](workers[j].pc \in {"done", "dead"}))
       => <>(ppc = "returned")
  /\ (ppc = "get") ~> (ppc = "alive")

\* C26 witness: the function has returned after both workers finished, one of
\* them after a failed fetch of a leaf.
C26_Witness ==
  /\ ppc = "returned"
  /\ tree = TreeSmall
  /\ \A j \in Jobs : workers[j].pc = "done"
  /\ \E j \in Jobs : state_progress[j].failed = 1 /\ state_progress[j].completed = 1

\* C27: an empty existing log is a cold start in ms.py. For a job of ms.py
\* whose output file exists and held no line when the process started, the
\* worker is not ended by the checkpoint read, its checkpoint is None, and when
\* it has ended without a failed fetch the file holds the record of every
\* leaf.
C27_EmptyLogColdStart ==
  \A j \in Jobs :
    (script = "ms" /\ files[j].exists /\ prior[j] = 0) =>
      /\ workers[j].pc # "dead"
      /\ continue_from[j] = None
      /\ (workers[j].pc = "done" /\ ~OwnFault(j)) => files[j].data = FullFile

\* C28: empty-path cursor. When scraper2 without --overwrite returns, every
\* fetch successful, from a run on a tree whose root page is a leaf and whose
\* file held the one record of that leaf, with lex_path [], the run has
\* appended nothing and the file still holds that record exactly once.
C28_EmptyPathCursor ==
  ( /\ prog = "scraper2"
    /\ resume
    /\ mpc = "returned"
    /\ NoFaultNow
    /\ ~IsBranch(tree, <<>>)
    /\ startFile = FileOf(<< <<>> >>) )
  => /\ Appended = <<>>
     /\ RecordCount(<<>>, outfile) = 1

\* A thread is about to write the URL of node l to the failure log.
AboutToLog(l) ==
  \E t \in Threads : thr[t].pc = "log_fail" /\ Top(thr[t].stack).path = l

\* C29: two fetches per recorded leaf. In every state of a run of ms2 or
\* scraper2, for every leaf: if the run has appended its record, its URL was
\* fetched exactly twice in the run and neither fetch failed; and if its URL
\* was fetched twice and the second fetch answered a non-success status, no
\* record of it is appended and its URL is in the lines the run added to the
\* failure log exactly once (as soon as the write is made).
C29_TwoFetchesPerRecordedLeaf ==
  (Running \/ Ended) =>
    \A l \in Leaves(tree) :
      /\ Occurrences(Json(l), Appended) > 0 =>
           /\ fetches[l] = 2
           /\ Occurrences(l, statusFails) = 0
           /\ \A k \in 1..Len(excs) : excs[k].p # l
      /\ (fetches[l] = 2 /\ Occurrences(l, statusFails) = 1) =>
           /\ Occurrences(Json(l), Appended) = 0
           /\ Occurrences(l, FailedNow) = (IF AboutToLog(l) THEN 0 ELSE 1)

\* C29 witness: a run has returned in which the second fetch of A1 answered a
\* non-success status and A0, fetched twice, was recorded.
C29_Witness ==
  /\ mpc = "returned"
  /\ tree = TreeAB
  /\ fetches[<<0,0>>] = 2
  /\ RecordCount(<<0,0>>, Appended) = 1
  /\ fetches[<<0,1>>] = 2
  /\ statusFails = << <<0,1>> >>
  /\ FailedNow = << <<0,1>> >>
  /\ RecordCount(<<0,1>>, Appended) = 0

\* Leaf l comes after leaf c in pre-order.
DfsAfter(c, l) ==
  LET d == Dfs(tree, <<>>)
  IN \E m, i \in 1..Len(d) : d[m] = c /\ d[i] = l /\ m < i

\* C30: resume survives a failure on the cursor path in ms.py. When the worker
\* of a job of ms.py that resumed from the last record c of its file has
\* ended, and the fetch of the node c or of one of its ancestors failed, every
\* leaf that comes after c in pre-order and is not under the failed node has a
\* record in the job's file or a line in the failure log.
C30_ResumeSurvivesCursorFailure ==
  \A j \in Jobs :
    (script = "ms" /\ prior[j] >= 1 /\ workers[j].pc = "done") =>
      LET c == files[j].data[2 * prior[j] - 1].p
      IN \A x \in 1..Len(failed) :
           (failed[x].job = j /\ IsPrefix(failed[x].p, c)) =>
             \A l \in Leaves(tree) :
               (DfsAfter(c, l) /\ ~IsPrefix(failed[x].p, l)) =>
                 \/ \E y \in 1..Len(files[j].data) : files[j].data[y] = JsonUrl(l)
                 \/ \E y \in 1..Len(failed) : failed[y] = [job |-> j, p |-> l]

\* The records of f are complete lines whose lex_paths are strictly increasing
\* in lexicographic order.
StrictlyIncreasing(f) ==
  /\ WellFormed(f)
  /\ \A i, j \in 1..Len(f) :
       (i < j /\ f[i].k = "json" /\ f[j].k = "json") => LexLess(f[i].p, f[j].p)

\* A run of scraper2 without --overwrite whose checkpoint reader returned a
\* cursor, on a file of strictly increasing records.
ResumedSorted ==
  /\ Running \/ Ended
  /\ prog = "scraper2"
  /\ resume
  /\ cursor # None
  /\ StrictlyIncreasing(startFile)

\* C31: the log stays sorted across a resume. In a resumed run of scraper2 with
\* cursor c on a file of strictly increasing records, every record the run has
\* appended has a lex_path strictly greater than c in lexicographic order, and
\* the lex_paths of the whole file (the prior records followed by the new
\* ones) are strictly increasing.
C31_SortedAcrossResume ==
  ResumedSorted =>
    /\ \A i \in 1..Len(Appended) :
         Appended[i].k = "json" => LexLess(cursor.p, Appended[i].p)
    /\ \A i, j \in 1..Len(outfile) :
         (i < j /\ outfile[i].k = "json" /\ outfile[j].k = "json")
           => LexLess(outfile[i].p, outfile[j].p)

\* The same statement for the trees whose root page is a branch.
C31_BranchRootSorted ==
  IsBranch(tree, <<>>) => C31_SortedAcrossResume

\* A resumed run of scraper2 on a tree with a branch root has returned after
\* appending the records of two leaves behind the cursor.
C31_BranchRootReached ==
  /\ ResumedSorted
  /\ mpc = "returned"
  /\ IsBranch(tree, <<>>)
  /\ Len(startFile) >= 2
  /\ Len(Appended) >= 4

\* The events of job j that are on the queue, oldest first.
QueueOf(j) ==
  LET OfJob(e) == e.job = j
  IN SelectSeq(progress_queue, OfJob)

\* The events the worker of job j has put, in the order of the puts.
SentEvents(j) == [k \in 1..Len(sent[j]) |-> sent[j][k].event]

\* The positions of the "last:<url>" events among the events job j has sent.
LastEvents(j) == { k \in 1..Len(sent[j]) : sent[j][k].event.status = "last" }

\* The URL of node p of job j without its first 29 characters.
UrlTail(j, p) == SubSeq(Url(j, p), 30, Len(Url(j, p)))

\* C32: last-seen URL. In process_states_in_parallel, for every job: (a) each
\* "completed" or "failed" event the job's worker has sent is followed, as the
\* next event of that job, by the "last:<url>" event of the same node, which
\* the worker is about to put when it has not put it yet; (b) the events of
\* the job are taken from the queue in the order the worker put them: the
\* events handled so far followed by those still on the queue are the events
\* sent; (c) once the loop has been left, the job's last-seen value is the URL
\* (cut by status[5 + 29:]) of the final "last:<url>" event the worker sent,
\* which in multi_scraper.py is the final event the worker sent, and is still
\* empty when the worker sent none.
C32_LastSeenUrl ==
  \A j \in Jobs :
    /\ \A k \in 1..Len(sent[j]) :
         sent[j][k].event.status \in {"completed", "failed"} =>
           IF k < Len(sent[j])
             THEN sent[j][k + 1] =
                    [event |-> [job |-> j, status |-> "last",
                                url |-> LastStatus(Url(j, sent[j][k].node))],
                     node  |-> sent[j][k].node]
             ELSE /\ workers[j].pc \in {"put_last", "put_last_failed"}
                  /\ Top(workers[j].stack).path = sent[j][k].node
    /\ handled[j] \o QueueOf(j) = SentEvents(j)
    /\ (ppc \in {"exited", "returned"}) =>
         /\ (script = "multi_scraper" /\ sent[j] # <<>>) => Len(sent[j]) \in LastEvents(j)
         /\ state_progress[j].last =
              IF LastEvents(j) = {} THEN None
              ELSE LET n == CHOOSE k \in LastEvents(j) : \A m \in LastEvents(j) : m <= k
                   IN Some(UrlTail(j, sent[j][n].node))

\* C32 witness: multi_scraper.py on the regulations has returned; every event
\* of the two jobs was handled, job 1 sent "failed" for its last leaf after
\* "completed" for its first, and each job's last-seen value is the cut URL of
\* its last leaf.
C32_Witness ==
  /\ ppc = "returned"
  /\ script = "multi_scraper"
  /\ regs
  /\ tree = TreeSmall
  /\ \A j \in Jobs :
       /\ Len(sent[j]) = 4
       /\ handled[j] = SentEvents(j)
       /\ sent[j][4].node = <<1,0>>
       /\ state_progress[j].last =
            Some(<< "m", "/", "s", "t", "a", "t", "e", "s", "/",
                    JurText[j], "link-1/", "link-0/" >>)
  /\ sent[1][1].event.status = "completed"
  /\ sent[1][3].event.status = "failed"
  /\ state_progress[1].failed = 1
  /\ state_progress[2].completed = 2

====
